---- MODULE Spec2Model ----
(***************************************************************************)
(* A model of express's View (src/lib/view.js): the constructor, which     *)
(* infers the extension, binds the template engine in the shared engines   *)
(* cache and looks the file up under the configured roots, and render.     *)
(* Strings are sequences of one-character strings, so that the path        *)
(* functions of node's path module are computed, not assumed.              *)
(***************************************************************************)
EXTENDS Integers, Sequences, FiniteSets, TLC

(***************************************************************************)
(* Strings and the posix path functions the source imports (line 17).      *)
(***************************************************************************)
\* An absent string (undefined): a value no string of characters equals.
Undefined == <<"undefined">>

\* An absent stat result and an absent engine function.
NoStat == "undefined"

NoEngine == "undefined"

Slash == "/"

Dot == "."

EmptyStr == << >>

\* The process working directory path.resolve falls back on.
Cwd == <<"/", "c", "w", "d">>

IsAbsolute(p) == Len(p) > 0 /\ p[1] = Slash

Last(s) == s[Len(s)]

Front(s) == SubSeq(s, 1, Len(s) - 1)

\* The length of p without its trailing slashes.
RECURSIVE StrippedLen(_, _)
StrippedLen(p, n) ==
  IF n > 0 /\ p[n] = Slash THEN StrippedLen(p, n - 1) ELSE n

\* The string with its trailing slashes removed.
StripTrailingSlashes(p) == SubSeq(p, 1, StrippedLen(p, Len(p)))

\* The index of the last occurrence of character c in s[1..n], 0 if none.
RECURSIVE LastIndexUpTo(_, _, _)
LastIndexUpTo(s, c, n) ==
  IF n = 0 THEN 0
  ELSE IF s[n] = c THEN n
  ELSE LastIndexUpTo(s, c, n - 1)

LastIndexOf(s, c) == LastIndexUpTo(s, c, Len(s))

\* The non-empty segments of p between slashes, in order.
RECURSIVE SplitFrom(_, _, _, _)
SplitFrom(p, i, cur, acc) ==
  IF i > Len(p) THEN (IF Len(cur) > 0 THEN Append(acc, cur) ELSE acc)
  ELSE IF p[i] = Slash
    THEN SplitFrom(p, i + 1, EmptyStr, IF Len(cur) > 0 THEN Append(acc, cur) ELSE acc)
    ELSE SplitFrom(p, i + 1, Append(cur, p[i]), acc)

Split(p) == SplitFrom(p, 1, EmptyStr, << >>)

\* path's normalizeString on segments: "." dropped, ".." pops a segment.
RECURSIVE NormalizeSegs(_, _, _)
NormalizeSegs(segs, allowAboveRoot, acc) ==
  IF Len(segs) = 0 THEN acc
  ELSE LET seg == Head(segs)
           rest == Tail(segs)
       IN IF seg = <<Dot>> THEN NormalizeSegs(rest, allowAboveRoot, acc)
          ELSE IF seg = <<Dot, Dot>>
            THEN IF Len(acc) > 0 /\ Last(acc) # <<Dot, Dot>>
                   THEN NormalizeSegs(rest, allowAboveRoot, Front(acc))
                   ELSE IF allowAboveRoot
                     THEN NormalizeSegs(rest, allowAboveRoot, Append(acc, seg))
                     ELSE NormalizeSegs(rest, allowAboveRoot, acc)
            ELSE NormalizeSegs(rest, allowAboveRoot, Append(acc, seg))

RECURSIVE JoinSegs(_)
JoinSegs(segs) ==
  IF Len(segs) = 0 THEN EmptyStr
  ELSE IF Len(segs) = 1 THEN Head(segs)
  ELSE Head(segs) \o <<Slash>> \o JoinSegs(Tail(segs))

\* path.normalize
normalize(p) ==
  IF Len(p) = 0 THEN <<Dot>>
  ELSE LET abs == IsAbsolute(p)
           trailing == Last(p) = Slash
           body == JoinSegs(NormalizeSegs(Split(p), ~abs, << >>))
       IN IF Len(body) = 0
            THEN (IF abs THEN <<Slash>> ELSE IF trailing THEN <<Dot, Slash>> ELSE <<Dot>>)
            ELSE (IF abs THEN <<Slash>> ELSE EmptyStr) \o body
                 \o (IF trailing THEN <<Slash>> ELSE EmptyStr)

\* path.join of a sequence of strings
RECURSIVE JoinNonEmpty(_)
JoinNonEmpty(args) ==
  IF Len(args) = 0 THEN EmptyStr
  ELSE IF Len(Head(args)) = 0 THEN JoinNonEmpty(Tail(args))
  ELSE LET rest == JoinNonEmpty(Tail(args))
       IN IF Len(rest) = 0 THEN Head(args) ELSE Head(args) \o <<Slash>> \o rest

join(args) ==
  LET joined == JoinNonEmpty(args)
  IN IF Len(joined) = 0 THEN <<Dot>> ELSE normalize(joined)

\* path.resolve(root, name): the rightmost absolute argument wins, the
\* working directory is prepended when neither is absolute.
resolve(root, name) ==
  LET joined == IF IsAbsolute(name) THEN name
                ELSE IF IsAbsolute(root) THEN root \o <<Slash>> \o name
                ELSE Cwd \o <<Slash>> \o root \o <<Slash>> \o name
  IN <<Slash>> \o JoinSegs(NormalizeSegs(Split(joined), FALSE, << >>))

\* path.dirname
dirname(p) ==
  IF Len(p) = 0 THEN <<Dot>>
  ELSE LET hasRoot == IsAbsolute(p)
           stripped == StripTrailingSlashes(SubSeq(p, 2, Len(p)))
           j == LastIndexOf(stripped, Slash)
       IN IF j = 0 THEN (IF hasRoot THEN <<Slash>> ELSE <<Dot>>)
          ELSE IF hasRoot /\ j = 1 THEN <<Slash, Slash>>
          ELSE SubSeq(p, 1, j)

\* The last component of p, trailing slashes ignored.
LastComponent(p) ==
  LET stripped == StripTrailingSlashes(p)
      j == LastIndexOf(stripped, Slash)
  IN SubSeq(stripped, j + 1, Len(stripped))

EndsWith(s, suffix) ==
  /\ Len(suffix) <= Len(s)
  /\ SubSeq(s, Len(s) - Len(suffix) + 1, Len(s)) = suffix

\* path.basename(p) and path.basename(p, suffix)
basename(p) == LastComponent(p)

\* With a suffix, the last component is scanned backwards against it: a
\* suffix that ends the component is cut off (unless it is the whole
\* component); a component that ran out before the suffix matched or
\* failed is returned with the trailing slashes of p.
basenameExt(p, suffix) ==
  IF Len(suffix) = 0 \/ Len(suffix) > Len(p) THEN LastComponent(p)
  ELSE IF suffix = p THEN EmptyStr
  ELSE LET stripped == StripTrailingSlashes(p)
           start == LastIndexOf(stripped, Slash)
           base == SubSeq(stripped, start + 1, Len(stripped))
       IN IF EndsWith(base, suffix)
            THEN IF base = suffix THEN base
                 ELSE SubSeq(base, 1, Len(base) - Len(suffix))
            ELSE IF EndsWith(suffix, base)
              THEN SubSeq(p, start + 1, Len(p))
              ELSE base

\* path.extname: from the last dot of the last component, unless that dot
\* is the component's first character or the component is "..".
extname(p) ==
  LET base == LastComponent(p)
      d == LastIndexOf(base, Dot)
  IN IF d <= 1 \/ base = <<Dot, Dot>> THEN EmptyStr
     ELSE SubSeq(base, d, Len(base))

(***************************************************************************)
(* The inputs of the model.                                                *)
(***************************************************************************)
sIndex == <<"i", "n", "d", "e", "x">>

sHtml == <<"h", "t", "m", "l">>

sEjs == <<"e", "j", "s">>

sViews == <<"/", "v", "i", "e", "w", "s">>

sAlt == <<"/", "a", "l", "t">>

sOther == <<"/", "x">>

sAB == <<"a", "/", "b">>

\* View names: without extension, with extension, inside a subdirectory.
Names == {sIndex, sIndex \o <<Dot>> \o sHtml, sAB}

\* The defaultEngine option: absent, empty, without and with its leading dot.
DefaultEngines == {Undefined, EmptyStr, sHtml, <<Dot>> \o sEjs}

\* The root option: one directory, or an ordered list of directories.
SingleRoot(r) == [kind |-> "single", value |-> r]

RootList(rs) == [kind |-> "list", value |-> rs]

RootOpts == {SingleRoot(sViews), RootList(<< >>), RootList(<<sViews, sAlt>>),
             RootList(<<sAlt, sViews, sOther>>)}

\* What require(mod).__express yields: a function, something that is not a
\* function, or require throwing because there is no such module.
Capabilities == {"fnA", "fnB"}

NotFunction == "notFunction"

ModuleMissing == "moduleMissing"

Exports == Capabilities \cup {NotFunction, ModuleMissing}

\* The options and callback handed to render.
RenderOptions == {"o1", "o2"}

Callback == "cb"

\* File kinds statSync can meet at a path; the last two make it throw.
Kinds == {"file", "dir", "enoent", "eacces"}

\* The paths of the modelled filesystem that can hold something.
FsPaths ==
  { sViews \o <<Slash>> \o sIndex \o <<Dot>> \o sHtml,
    sViews \o <<Slash>> \o sIndex \o <<Slash>> \o sIndex \o <<Dot>> \o sHtml,
    sAlt \o <<Slash>> \o sIndex \o <<Dot>> \o sHtml,
    sAlt \o <<Slash>> \o sIndex \o <<Slash>> \o sIndex \o <<Dot>> \o sHtml,
    sViews \o <<Slash>> \o sAB \o <<Dot>> \o sHtml,
    sViews \o <<Slash>> \o sAB \o <<Slash>> \o sIndex \o <<Dot>> \o sHtml }

\* Constructions in a row that share one engines cache.
MaxViews == 2

\* Constructions that interleave on one engines cache.
MaxRacers == 2

\* Calls of render.
MaxRenders == 2

\* Paths of the filesystem that hold something when a lookup starts.
MaxFsEntries == 2

(***************************************************************************)
(* State.                                                                  *)
(***************************************************************************)
VARIABLES
  fs,       \* the filesystem: path -> kind
  engines,  \* opts.engines, the shared cache: extension -> engine function
  views,    \* the View constructions so far, in order of their start
  binds,    \* the writes to the engines cache (line 68), in order
  calls     \* the engine invocations made by render, in order

vars == <<fs, engines, views, binds, calls>>

Truthy(s) == s # Undefined /\ s # EmptyStr

(***************************************************************************)
(* lookup, resolve and tryStat.                                            *)
(***************************************************************************)
\* statSync's result, or Undefined when it throws.
tryStat(path, disk) ==
  LET kind == IF path \in DOMAIN disk THEN disk[path] ELSE "enoent"
  IN IF kind \in {"enoent", "eacces"} THEN NoStat ELSE kind

\* Mutant of IsFile: any stat result counts, as if isFile() were not asked.
IsFileAnyStat(stat) == stat \in {"file", "dir"}

\* stat.isFile()
IsFile(stat) == stat = "file"

\* Mutant of resolveFile: the index is stat'ed whatever the exact file is.
resolveFileAlwaysBoth(dir, file, ext, disk) ==
  LET exact == join(<<dir, file>>)
      index == join(<<dir, basenameExt(file, ext), <<"i", "n", "d", "e", "x">> \o ext>>)
  IN IF tryStat(exact, disk) = "file"
       THEN [path |-> exact, stats |-> <<exact, index>>]
       ELSE IF tryStat(index, disk) = "file"
         THEN [path |-> index, stats |-> <<exact, index>>]
         ELSE [path |-> Undefined, stats |-> <<exact, index>>]

\* Mutant of resolveFile: the index is sought in the directory of the file,
\* not in the directory named after the file.
resolveFileIndexInDir(dir, file, ext, disk) ==
  LET exact == join(<<dir, file>>)
      index == join(<<dir, <<"i", "n", "d", "e", "x">> \o ext>>)
  IN IF tryStat(exact, disk) = "file"
       THEN [path |-> exact, stats |-> <<exact>>]
       ELSE IF tryStat(index, disk) = "file"
         THEN [path |-> index, stats |-> <<exact, index>>]
         ELSE [path |-> Undefined, stats |-> <<exact, index>>]

\* Mutant of resolveFile: the directory index is tried first.
resolveFileIndexFirst(dir, file, ext, disk) ==
  LET exact == join(<<dir, file>>)
      index == join(<<dir, basenameExt(file, ext), <<"i", "n", "d", "e", "x">> \o ext>>)
  IN IF tryStat(index, disk) = "file"
       THEN [path |-> index, stats |-> <<index>>]
       ELSE IF tryStat(exact, disk) = "file"
         THEN [path |-> exact, stats |-> <<index, exact>>]
         ELSE [path |-> Undefined, stats |-> <<index, exact>>]

\* View.resolve: the exact file, then the directory index. The result holds
\* the path returned and the paths stat'ed, in order.
resolveFile(dir, file, ext, disk) ==
  LET exact == join(<<dir, file>>)
      statExact == tryStat(exact, disk)
      index == join(<<dir, basenameExt(file, ext), <<"i", "n", "d", "e", "x">> \o ext>>)
      statIndex == tryStat(index, disk)
  IN IF statExact # NoStat /\ IsFile(statExact)
       THEN [path |-> exact, stats |-> <<exact>>]
       ELSE IF statIndex # NoStat /\ IsFile(statIndex)
         THEN [path |-> index, stats |-> <<exact, index>>]
         ELSE [path |-> Undefined, stats |-> <<exact, index>>]

\* Mutant of ConcatRoots: a root that is no list is dropped.
ConcatRootsListOnly(root) == IF root.kind = "list" THEN root.value ELSE << >>

\* [].concat(this.root): the list itself, or the one root as a list.
ConcatRoots(root) == IF root.kind = "list" THEN root.value ELSE <<root.value>>

\* One probe of the log: the loop index of the root and the path stat'ed.
RECURSIVE TagStats(_, _)
TagStats(i, paths) ==
  IF Len(paths) = 0 THEN << >>
  ELSE <<[root |-> i, path |-> Head(paths)]>> \o TagStats(i, Tail(paths))

\* Mutant of lookupFrom: the loop does not stop at the first match.
RECURSIVE lookupFromNoStop(_, _, _, _, _, _)
lookupFromNoStop(roots, i, name, ext, disk, stats) ==
  IF i > Len(roots) THEN [path |-> Undefined, stats |-> stats]
  ELSE LET loc == resolve(roots[i], name)
           r == resolveFile(dirname(loc), basename(loc), ext, disk)
           rest == lookupFromNoStop(roots, i + 1, name, ext, disk,
                                    stats \o TagStats(i, r.stats))
       IN IF i = Len(roots) THEN [path |-> r.path, stats |-> rest.stats] ELSE rest

\* The loop of View.lookup from root index i on.
RECURSIVE lookupFrom(_, _, _, _, _, _)
lookupFrom(roots, i, name, ext, disk, stats) ==
  IF i > Len(roots) THEN [path |-> Undefined, stats |-> stats]
  ELSE LET loc == resolve(roots[i], name)
           dir == dirname(loc)
           file == basename(loc)
           r == resolveFile(dir, file, ext, disk)
           seen == stats \o TagStats(i, r.stats)
       IN IF r.path # Undefined THEN [path |-> r.path, stats |-> seen]
          ELSE lookupFrom(roots, i + 1, name, ext, disk, seen)

lookup(root, name, ext, disk) ==
  lookupFrom(ConcatRoots(root), 1, name, ext, disk, << >>)

(***************************************************************************)
(* The constructor, in the order of its statements.                        *)
(***************************************************************************)
NoError == [type |-> "none", mod |-> Undefined]

ConfigurationError == [type |-> "ConfigurationError", mod |-> Undefined]

EngineLoadError(mod) == [type |-> "EngineLoadError", mod |-> mod]

ModuleNotFound(mod) == [type |-> "ModuleNotFound", mod |-> mod]

\* Mutant of extOf: the dot is put in front of every defaultEngine.
extOfAlwaysDot(name, defaultEngine) ==
  IF Truthy(extname(name)) THEN extname(name) ELSE <<Dot>> \o defaultEngine

\* Mutant of extOf: the defaultEngine is taken as the extension as it is.
extOfNoDot(name, defaultEngine) ==
  IF Truthy(extname(name)) THEN extname(name) ELSE defaultEngine

\* Mutant of extOf: a defaultEngine, when given, decides the extension.
extOfPreferDefault(name, defaultEngine) ==
  IF Truthy(defaultEngine)
    THEN (IF defaultEngine[1] # Dot THEN <<Dot>> \o defaultEngine ELSE defaultEngine)
    ELSE extname(name)

\* this.ext after lines 39-54.
extOf(name, defaultEngine) ==
  IF Truthy(extname(name)) THEN extname(name)
  ELSE IF defaultEngine[1] # Dot THEN <<Dot>> \o defaultEngine ELSE defaultEngine

\* The local fileName after lines 47-54.
fileNameOf(name, defaultEngine) ==
  IF Truthy(extname(name)) THEN name ELSE name \o extOf(name, defaultEngine)

\* Mutant of ctorStart: the check of line 43 is missing.
ctorStartUnchecked(name, opts) ==
  [pc |-> "check", name |-> name, defaultEngine |-> opts.defaultEngine,
   root |-> opts.root,
   ext |-> IF Truthy(extname(name)) \/ ~Truthy(opts.defaultEngine) THEN extname(name)
           ELSE extOf(name, opts.defaultEngine),
   fileName |-> IF Truthy(extname(name)) \/ ~Truthy(opts.defaultEngine) THEN name
                ELSE fileNameOf(name, opts.defaultEngine),
   fn |-> NoEngine, engine |-> NoEngine, path |-> Undefined,
   stats |-> << >>, requires |-> << >>, error |-> NoError]

\* Lines 36-54: the fields are set, then the extension is required.
ctorStart(name, opts) ==
  LET base == [pc |-> "failed", name |-> name, defaultEngine |-> opts.defaultEngine,
               root |-> opts.root, ext |-> extname(name), fileName |-> name,
               fn |-> NoEngine, engine |-> NoEngine, path |-> Undefined,
               stats |-> << >>, requires |-> << >>, error |-> NoError]
  IN IF ~Truthy(extname(name)) /\ ~Truthy(opts.defaultEngine)
       THEN [base EXCEPT !.error = ConfigurationError]
       ELSE [base EXCEPT !.pc = "check",
                         !.ext = extOf(name, opts.defaultEngine),
                         !.fileName = fileNameOf(name, opts.defaultEngine)]

\* opts.engines[ext], undefined when the cache has no such key.
engineOf(cache, ext) == IF ext \in DOMAIN cache THEN cache[ext] ELSE NoEngine

\* Mutant of ctorCheck: the cache is asked for the extension of the name,
\* not for this.ext.
ctorCheckNameKey(view, cache) ==
  [view EXCEPT !.pc = IF engineOf(cache, extname(view.name)) = NoEngine
                        THEN "require" ELSE "store"]

\* Mutant of ctorCheck: the cache is not consulted, every view loads.
ctorCheckAlwaysLoad(view, cache) == [view EXCEPT !.pc = "require"]

\* Line 56: is an engine bound for the extension?
ctorCheck(view, cache) ==
  [view EXCEPT !.pc = IF engineOf(cache, view.ext) = NoEngine THEN "require" ELSE "store"]

\* this.ext.substr(1)
modOf(ext) == SubSeq(ext, 2, Len(ext))

\* Mutant of ctorRequire: the typeof check of line 64 is missing.
ctorRequireUntyped(view, export) ==
  LET mod == SubSeq(view.ext, 2, Len(view.ext))
      required == [view EXCEPT !.requires = Append(@, mod)]
  IN IF export = ModuleMissing
       THEN [required EXCEPT !.pc = "failed", !.error = ModuleNotFound(mod)]
       ELSE [required EXCEPT !.pc = "bind", !.fn = export]

\* Lines 58-66: require the module named after the extension and take its
\* __express (kept in fn whatever it is), which has to be a function.
ctorRequire(view, export) ==
  LET mod == modOf(view.ext)
      required == [view EXCEPT !.requires = Append(@, mod)]
  IN IF export = ModuleMissing
       THEN [required EXCEPT !.pc = "failed", !.error = ModuleNotFound(mod)]
       ELSE IF export \notin Capabilities
         THEN [required EXCEPT !.pc = "failed", !.fn = export,
                               !.error = EngineLoadError(mod)]
         ELSE [required EXCEPT !.pc = "bind", !.fn = export]

\* Mutant of bindEngine: a binding already there is kept.
bindEngineIfAbsent(cache, ext, fn) == cache @@ (ext :> fn)

\* Line 68: opts.engines[this.ext] = fn
bindEngine(cache, ext, fn) == (ext :> fn) @@ cache

\* Line 72: this.engine = opts.engines[this.ext]
ctorStore(view, cache) ==
  [view EXCEPT !.pc = "lookup", !.engine = engineOf(cache, view.ext)]

\* Mutant of ctorLookup: a lookup that finds nothing throws.
ctorLookupThrows(view, disk) ==
  LET found == lookup(view.root, view.fileName, view.ext, disk)
  IN IF found.path = Undefined
       THEN [view EXCEPT !.pc = "failed", !.stats = found.stats,
                         !.error = [type |-> "NotFound", mod |-> Undefined]]
       ELSE [view EXCEPT !.pc = "done", !.path = found.path, !.stats = found.stats]

\* Line 75: this.path = this.lookup(fileName)
ctorLookup(view, disk) ==
  LET found == lookup(view.root, view.fileName, view.ext, disk)
  IN [view EXCEPT !.pc = "done", !.path = found.path, !.stats = found.stats]

\* The whole constructor run without interruption: the view it leaves, the
\* engines cache afterwards and whether line 68 wrote to it.
ctorFinish(loaded, cache, disk, wrote) ==
  [view |-> ctorLookup(ctorStore(loaded, cache), disk), engines |-> cache,
   wrote |-> wrote]

ctorAfterLoad(loaded, cache, disk) ==
  IF loaded.pc = "failed" THEN [view |-> loaded, engines |-> cache, wrote |-> FALSE]
  ELSE IF loaded.pc = "bind"
    THEN ctorFinish(loaded, bindEngine(cache, loaded.ext, loaded.fn), disk, TRUE)
    ELSE ctorFinish(loaded, cache, disk, FALSE)

ctorAfterCheck(checked, export, cache, disk) ==
  IF checked.pc = "require"
    THEN ctorAfterLoad(ctorRequire(checked, export), cache, disk)
    ELSE ctorAfterLoad(checked, cache, disk)

\* Mutant of ctorAfterStart: the file is looked up before the engine is
\* loaded.
ctorAfterStartLookupFirst(started, export, cache, disk) ==
  IF started.pc = "failed" THEN [view |-> started, engines |-> cache, wrote |-> FALSE]
  ELSE LET found == lookup(started.root, started.fileName, started.ext, disk)
           rest == ctorAfterCheck(ctorCheck(started, cache), export, cache, disk)
       IN [rest EXCEPT !.view.path = found.path, !.view.stats = found.stats]

ctorAfterStart(started, export, cache, disk) ==
  IF started.pc = "failed" THEN [view |-> started, engines |-> cache, wrote |-> FALSE]
  ELSE ctorAfterCheck(ctorCheck(started, cache), export, cache, disk)

construct(name, opts, export, cache, disk) ==
  ctorAfterStart(ctorStart(name, opts), export, cache, disk)

(***************************************************************************)
(* Initial states.                                                         *)
(***************************************************************************)
\* The engines cache the caller passes in: empty, or with an engine the
\* caller registered for ".html".
PreRegistered == "fnPre"

InitialEngines == {<< >>, (<<Dot>> \o sHtml) :> PreRegistered}

Callables == Capabilities \cup {PreRegistered}

EmptyDisk == [p \in FsPaths |-> "enoent"]

FsEntries(disk) == {p \in DOMAIN disk : disk[p] # "enoent"}

\* Nothing constructed yet, nothing on disk.
Init ==
  /\ fs = EmptyDisk
  /\ engines \in InitialEngines
  /\ views = << >>
  /\ binds = << >>
  /\ calls = << >>

\* Nothing constructed yet, any disk with at most MaxFsEntries entries.
InitLookup ==
  /\ fs \in {d \in [FsPaths -> Kinds] : Cardinality(FsEntries(d)) <= MaxFsEntries}
  /\ engines \in InitialEngines
  /\ views = << >>
  /\ binds = << >>
  /\ calls = << >>

(***************************************************************************)
(* Actions.                                                                *)
(***************************************************************************)
Options == [defaultEngine : DefaultEngines, root : RootOpts]

AllDone == \A v \in DOMAIN views : views[v].pc \in {"done", "failed"}

\* The effect of a construction with result r on the state.
Commit(r) ==
  /\ views' = Append(views, r.view)
  /\ engines' = r.engines
  /\ binds' = IF r.wrote
                THEN Append(binds, [view |-> Len(views) + 1, ext |-> r.view.ext,
                                    fn |-> r.view.fn])
                ELSE binds

\* new View(name, opts), run to completion.
Construct(name, opts, export) ==
  /\ AllDone
  /\ Commit(construct(name, opts, export, engines, fs))
  /\ UNCHANGED <<fs, calls>>

\* Mutant of Render: the path is looked up again before the engine is called.
RenderRelookup(v, options) ==
  /\ Len(calls) < MaxRenders
  /\ views[v].pc = "done"
  /\ views' = [views EXCEPT ![v] = ctorLookup(@, fs)]
  /\ calls' = Append(calls, [view |-> v, engine |-> views[v].engine,
                             path |-> views'[v].path, options |-> options,
                             callback |-> Callback])
  /\ UNCHANGED <<fs, engines, binds>>

\* Mutant of Render: the engine is taken from the cache again and called
\* with the file name when there is no path.
RenderRebinding(v, options) ==
  /\ Len(calls) < MaxRenders
  /\ views[v].pc = "done"
  /\ calls' = Append(calls, [view |-> v, engine |-> engineOf(engines, views[v].ext),
                             path |-> IF views[v].path = Undefined
                                        THEN views[v].fileName ELSE views[v].path,
                             options |-> options, callback |-> Callback])
  /\ UNCHANGED <<fs, engines, views, binds>>

\* view.render(options, callback): this.engine(this.path, options, callback)
Render(v, options) ==
  /\ Len(calls) < MaxRenders
  /\ views[v].pc = "done"
  /\ calls' = Append(calls, [view |-> v, engine |-> views[v].engine,
                             path |-> views[v].path, options |-> options,
                             callback |-> Callback])
  /\ UNCHANGED <<fs, engines, views, binds>>

\* The environment changes what is at a path.
FsChange(p, kind) ==
  /\ fs[p] # kind
  /\ fs' = [fs EXCEPT ![p] = kind]
  /\ UNCHANGED <<engines, views, binds, calls>>

\* The constructor one statement group at a time, for constructions that
\* interleave.
Start(name, opts) ==
  /\ Len(views) < MaxRacers
  /\ views' = Append(views, ctorStart(name, opts))
  /\ UNCHANGED <<fs, engines, binds, calls>>

Check(v) ==
  /\ views[v].pc = "check"
  /\ views' = [views EXCEPT ![v] = ctorCheck(@, engines)]
  /\ UNCHANGED <<fs, engines, binds, calls>>

Require(v, export) ==
  /\ views[v].pc = "require"
  /\ views' = [views EXCEPT ![v] = ctorRequire(@, export)]
  /\ UNCHANGED <<fs, engines, binds, calls>>

Bind(v) ==
  /\ views[v].pc = "bind"
  /\ engines' = bindEngine(engines, views[v].ext, views[v].fn)
  /\ binds' = Append(binds, [view |-> v, ext |-> views[v].ext, fn |-> views[v].fn])
  /\ views' = [views EXCEPT ![v].pc = "store"]
  /\ UNCHANGED <<fs, calls>>

Store(v) ==
  /\ views[v].pc = "store"
  /\ views' = [views EXCEPT ![v] = ctorStore(@, engines)]
  /\ UNCHANGED <<fs, engines, binds, calls>>

Lookup(v) ==
  /\ views[v].pc = "lookup"
  /\ views' = [views EXCEPT ![v] = ctorLookup(@, fs)]
  /\ UNCHANGED <<fs, engines, binds, calls>>

(***************************************************************************)
(* Specifications.                                                         *)
(***************************************************************************)
\* The options of an application that keeps its views under /views.
AppOptions == [defaultEngine : DefaultEngines, root : {SingleRoot(sViews)}]

\* Constructions one after another on one engines cache.
Next ==
  \E name \in Names, opts \in AppOptions, export \in Exports :
    Len(views) < MaxViews /\ Construct(name, opts, export)

Spec == Init /\ [][Next]_vars

\* One construction over every small filesystem and every root option.
LookupExports == {"fnA", NotFunction}

\* The names looked up: those above and an absolute path.
LookupNames == Names \cup {sAlt \o <<Slash>> \o sIndex \o <<Dot>> \o sHtml}

NextLookup ==
  \E name \in LookupNames, opts \in Options, export \in LookupExports :
    views = << >> /\ Construct(name, opts, export)

SpecLookup == InitLookup /\ [][NextLookup]_vars

\* One view, rendered while the files under /views come and go.
ChangingPaths ==
  { sViews \o <<Slash>> \o sIndex \o <<Dot>> \o sHtml,
    sViews \o <<Slash>> \o sIndex \o <<Slash>> \o sIndex \o <<Dot>> \o sHtml }

NextRender ==
  \/ \E name \in Names, opts \in AppOptions, export \in Capabilities :
       views = << >> /\ Construct(name, opts, export)
  \/ \E v \in DOMAIN views, options \in RenderOptions : Render(v, options)
  \/ \E p \in ChangingPaths, kind \in Kinds : FsChange(p, kind)

SpecRender == Init /\ [][NextRender]_vars

\* Constructions whose statements interleave on one engines cache.
RaceNames == {sIndex, sIndex \o <<Dot>> \o sHtml}

RaceOptions == [defaultEngine : {sHtml}, root : {SingleRoot(sViews)}]

NextRace ==
  \/ \E name \in RaceNames, opts \in RaceOptions : Start(name, opts)
  \/ \E v \in DOMAIN views : Check(v)
  \/ \E v \in DOMAIN views, export \in Exports : Require(v, export)
  \/ \E v \in DOMAIN views : Bind(v)
  \/ \E v \in DOMAIN views : Store(v)
  \/ \E v \in DOMAIN views : Lookup(v)

SpecRace == Init /\ [][NextRace]_vars

(***************************************************************************)
(* Properties of lookup (SpecLookup: the filesystem does not change).      *)
(***************************************************************************)
KindAt(p) == IF p \in DOMAIN fs THEN fs[p] ELSE "enoent"

IsRegularFile(p) == KindAt(p) = "file"

\* The two candidates of a root: the exact file and the directory index.
ExactCandidate(root, fileName) == resolve(root, fileName)

IndexCandidate(root, fileName, ext) ==
  join(<<dirname(resolve(root, fileName)),
         basenameExt(basename(resolve(root, fileName)), ext),
         <<"i", "n", "d", "e", "x">> \o ext>>)

HasMatch(root, w) ==
  \/ IsRegularFile(ExactCandidate(root, w.fileName))
  \/ IsRegularFile(IndexCandidate(root, w.fileName, w.ext))

Constructed == {v \in DOMAIN views : views[v].pc = "done"}

\* The ordered roots of a view: the list given, or the single root given.
RootsOf(w) == IF w.root.kind = "single" THEN <<w.root.value>> ELSE w.root.value

\* The index of the first root with a match, 0 if there is none.
FirstMatch(w) ==
  IF \E i \in 1..Len(RootsOf(w)) : HasMatch(RootsOf(w)[i], w)
    THEN CHOOSE i \in 1..Len(RootsOf(w)) :
           /\ HasMatch(RootsOf(w)[i], w)
           /\ \A j \in 1..(i - 1) : ~HasMatch(RootsOf(w)[j], w)
    ELSE 0

\* The paths stat'ed for root index i, in order.
ProbesOf(w, i) == SelectSeq(w.stats, LAMBDA probe : probe.root = i)

PathsOf(probes) == [k \in 1..Len(probes) |-> probes[k].path]

\* C1: when a match exists under root Ri and under no earlier root, lookup
\* returns the matching path under Ri and stats nothing of a later root.
C1_FirstMatchingRootWins ==
  \A v \in Constructed :
    LET w == views[v]
        i == FirstMatch(w)
    IN i > 0 =>
         /\ w.path \in {ExactCandidate(RootsOf(w)[i], w.fileName),
                        IndexCandidate(RootsOf(w)[i], w.fileName, w.ext)}
         /\ IsRegularFile(w.path)
         /\ \A k \in 1..Len(w.stats) : w.stats[k].root <= i

\* A lookup over three roots that found its file under the second.
C1_Witness ==
  \E v \in Constructed :
    /\ Len(RootsOf(views[v])) = 3
    /\ FirstMatch(views[v]) = 2
    /\ views[v].path # Undefined
    /\ \E k \in 1..Len(views[v].stats) : views[v].stats[k].root = 2

\* C2: within the root where lookup ends, the exact file is stat'ed before
\* the directory index and wins over it: with both regular files the exact
\* path is returned, and the index path is returned only after the exact
\* probe failed.
C2_ExactBeforeIndex ==
  \A v \in Constructed :
    LET w == views[v]
        i == FirstMatch(w)
        exact == ExactCandidate(RootsOf(w)[i], w.fileName)
        index == IndexCandidate(RootsOf(w)[i], w.fileName, w.ext)
    IN i > 0 =>
         /\ (IsRegularFile(exact) /\ IsRegularFile(index)) => w.path = exact
         /\ IsRegularFile(exact) => PathsOf(ProbesOf(w, i)) = <<exact>>
         /\ w.path = index =>
              /\ ~IsRegularFile(exact)
              /\ PathsOf(ProbesOf(w, i)) = <<exact, index>>

\* Both candidates of the first root are regular files.
C2_Witness ==
  \E v \in Constructed :
    LET w == views[v]
    IN /\ Len(RootsOf(w)) > 0
       /\ IsRegularFile(ExactCandidate(RootsOf(w)[1], w.fileName))
       /\ IsRegularFile(IndexCandidate(RootsOf(w)[1], w.fileName, w.ext))
       /\ w.path = ExactCandidate(RootsOf(w)[1], w.fileName)

pViewsIndexHtml ==
  <<"/", "v", "i", "e", "w", "s", "/", "i", "n", "d", "e", "x", ".", "h", "t", "m", "l">>

pViewsIndexIndexHtml ==
  <<"/", "v", "i", "e", "w", "s", "/", "i", "n", "d", "e", "x", "/",
    "i", "n", "d", "e", "x", ".", "h", "t", "m", "l">>

\* C6: for a name without extension the extension is the defaultEngine,
\* with a dot put in front exactly when it has none, the file looked up is
\* name + extension and the name attribute stays the name; "index" with
\* defaultEngine "html" under "/views" is found at /views/index.html when
\* that is a file and else at /views/index/index.html when that is one.
C6_DefaultEngineExtension ==
  \A v \in DOMAIN views :
    LET w == views[v]
    IN (extname(w.name) = EmptyStr /\ w.defaultEngine \notin {Undefined, EmptyStr}) =>
         /\ w.ext = IF Head(w.defaultEngine) = Dot THEN w.defaultEngine
                    ELSE <<Dot>> \o w.defaultEngine
         /\ Head(w.ext) = Dot /\ (Len(w.ext) < 2 \/ w.ext[2] # Dot)
         /\ w.fileName = w.name \o w.ext
         /\ w.name \in Names
         /\ (/\ w.pc = "done"
             /\ w.name = <<"i", "n", "d", "e", "x">>
             /\ w.defaultEngine = <<"h", "t", "m", "l">>
             /\ w.root = SingleRoot(<<"/", "v", "i", "e", "w", "s">>)) =>
              /\ IsRegularFile(pViewsIndexHtml) => w.path = pViewsIndexHtml
              /\ (~IsRegularFile(pViewsIndexHtml) /\ IsRegularFile(pViewsIndexIndexHtml))
                   => w.path = pViewsIndexIndexHtml

\* "index" with defaultEngine "html" resolved to the directory index.
C6_Witness ==
  \E v \in Constructed :
    /\ views[v].name = <<"i", "n", "d", "e", "x">>
    /\ views[v].defaultEngine = <<"h", "t", "m", "l">>
    /\ views[v].root = SingleRoot(<<"/", "v", "i", "e", "w", "s">>)
    /\ views[v].path = pViewsIndexIndexHtml

\* C9: only a regular file makes a probe succeed. A directory, a missing
\* path or a stat error at a candidate makes lookup go on to the next probe
\* and the next root and never fails the construction, so a resolved path
\* is a regular file.
C9_OnlyRegularFilesMatch ==
  \A v \in DOMAIN views :
    LET w == views[v]
        roots == RootsOf(w)
        last == IF FirstMatch(w) = 0 THEN Len(roots) ELSE FirstMatch(w)
    IN /\ Len(w.stats) > 0 => w.pc = "done" /\ w.error = NoError
       /\ w.pc = "done" =>
            /\ w.path # Undefined => IsRegularFile(w.path)
            /\ FirstMatch(w) = 0 => w.path = Undefined
            /\ \A i \in 1..last :
                 LET exact == ExactCandidate(roots[i], w.fileName)
                     index == IndexCandidate(roots[i], w.fileName, w.ext)
                 IN PathsOf(ProbesOf(w, i)) =
                      IF IsRegularFile(exact) THEN <<exact>> ELSE <<exact, index>>

\* A lookup that met a directory at the exact candidate, a stat error at
\* the index or under the next root, and went on.
C9_Witness ==
  \E v \in Constructed :
    LET w == views[v]
    IN /\ Len(w.stats) > 2
       /\ KindAt(w.stats[1].path) = "dir"
       /\ \E k \in 2..Len(w.stats) : KindAt(w.stats[k].path) = "eacces"

(***************************************************************************)
(* Properties of constructions that follow one another (Spec).             *)
(***************************************************************************)
\* C3: a name without extension and no (or an empty) defaultEngine fail the construction
\* with the configuration error before anything is stat'ed or required.
C3_NoExtensionNoDefaultEngine ==
  \A v \in DOMAIN views :
    LET w == views[v]
    IN (extname(w.name) = EmptyStr /\ w.defaultEngine \in {Undefined, EmptyStr}) =>
         /\ w.pc = "failed"
         /\ w.error = ConfigurationError
         /\ w.stats = << >>
         /\ w.requires = << >>
         /\ w.path = Undefined

\* A construction of "index" without defaultEngine has been attempted.
C3_Witness ==
  \E v \in DOMAIN views :
    /\ views[v].name = <<"i", "n", "d", "e", "x">>
    /\ views[v].defaultEngine = Undefined
    /\ views[v].error = ConfigurationError

\* The requires made by the constructed views of extension e.
RECURSIVE LoadsBy(_, _)
LoadsBy(n, e) ==
  IF n = 0 THEN 0
  ELSE LoadsBy(n - 1, e)
       + (IF views[n].pc = "done" /\ views[n].ext = e THEN Len(views[n].requires) ELSE 0)

\* C4: two or more views constructed one after another with the same
\* extension on a cache that had no engine for it load the provider exactly
\* once between them (never when the caller had registered the engine), and
\* all hold the one engine the cache has under that extension.
C4_OneLoadPerExtension ==
  \A v \in Constructed, w \in Constructed :
    (v < w /\ views[v].ext = views[w].ext) =>
      LET e == views[v].ext
      IN /\ e \in DOMAIN engines
         /\ views[v].engine = engines[e]
         /\ views[w].engine = engines[e]
         /\ views[w].requires = << >>
         /\ LoadsBy(Len(views), e) = IF engines[e] = PreRegistered THEN 0 ELSE 1

\* Two views of one extension, the first of which loaded the engine.
C4_Witness ==
  \E v \in Constructed, w \in Constructed :
    /\ v < w
    /\ views[v].ext = views[w].ext
    /\ views[v].requires # << >>
    /\ views[w].engine = views[v].fn

\* A step that is a construction failing with EngineLoadError.
FailedLoadStep ==
  /\ Len(views') = Len(views) + 1
  /\ Last(views').error.type = "EngineLoadError"

\* C7: with no engine bound for the extension and a provider whose
\* __express is not a function, the construction fails with an
\* EngineLoadError that names the provider, the extension without its dot,
\* and writes nothing to the cache.
C7_EngineLoadError ==
  /\ [](\A v \in DOMAIN views :
          LET w == views[v]
          IN /\ (w.requires # << >> /\ w.fn \notin Capabilities /\ w.fn # NoEngine) =>
                  /\ w.pc = "failed"
                  /\ w.error = EngineLoadError(w.error.mod)
                  /\ <<Dot>> \o w.error.mod = w.ext
                  /\ w.engine = NoEngine
                  /\ w.stats = << >>
             /\ w.error.type = "EngineLoadError" =>
                  /\ w.fn = NotFunction
                  /\ \A k \in 1..Len(binds) : binds[k].view # v)
  /\ [][FailedLoadStep =>
          /\ engines' = engines
          /\ binds' = binds
          /\ Last(views').ext \notin DOMAIN engines]_vars

\* A construction failed on a provider without engine while the cache has
\* no engine for its extension.
C7_Witness ==
  \E v \in DOMAIN views :
    /\ views[v].error.type = "EngineLoadError"
    /\ views[v].fn = NotFunction
    /\ views[v].ext \notin DOMAIN engines

\* C8: when the name has an extension, the view's extension, the key read
\* and written in the cache, the module required and the file looked up
\* come from the name alone, whatever defaultEngine is.
C8_DefaultEngineOnlyWithoutExtension ==
  \A v \in DOMAIN views :
    LET w == views[v]
        e == extname(w.name)
    IN e # EmptyStr =>
         /\ w.ext = e
         /\ w.fileName = w.name
         /\ \A k \in 1..Len(w.requires) : <<Dot>> \o w.requires[k] = e
         /\ \A k \in 1..Len(binds) : binds[k].view = v => binds[k].ext = e
         /\ w.pc = "done" => e \in DOMAIN engines /\ w.engine = engines[e]
         /\ \A k \in 1..Len(w.stats) : extname(w.stats[k].path) = e

\* "index.html" constructed with defaultEngine ".ejs" got the html engine.
C8_Witness ==
  \E v \in Constructed :
    /\ views[v].name = <<"i", "n", "d", "e", "x", ".", "h", "t", "m", "l">>
    /\ views[v].defaultEngine = <<".", "e", "j", "s">>
    /\ views[v].ext = <<".", "h", "t", "m", "l">>
    /\ views[v].requires = <<(<<"h", "t", "m", "l">>)>>

(***************************************************************************)
(* Properties of render (SpecRender).                                      *)
(***************************************************************************)
NoRootMatches(w) == \A i \in 1..Len(RootsOf(w)) : ~HasMatch(RootsOf(w)[i], w)

\* A step that is a construction which got past the extension and the
\* engine while no root holds a match.
MissStep ==
  /\ Len(views') = Len(views) + 1
  /\ Last(views').error.type
       \notin {"ConfigurationError", "EngineLoadError", "ModuleNotFound"}
  /\ NoRootMatches(Last(views'))

\* A step that is a render of view v.
RenderStep(v) ==
  /\ Len(calls') = Len(calls) + 1
  /\ Last(calls').view = v

\* C5: when no root holds a match the construction completes without error
\* and leaves the path absent; render may then be called, and it calls the
\* view's engine with the absent path and the options, throws nothing and
\* checks nothing first.
C5_MissIsNotAnError ==
  /\ [][MissStep =>
          /\ Last(views').pc = "done"
          /\ Last(views').error = NoError
          /\ Last(views').path = Undefined
          /\ Last(views').engine \in Callables]_vars
  /\ [][\A v \in DOMAIN views :
          (RenderStep(v) /\ views[v].path = Undefined) =>
            /\ Last(calls').options \in RenderOptions
            /\ calls' = Append(calls, [view |-> v, engine |-> views[v].engine,
                                       path |-> Undefined,
                                       options |-> Last(calls').options,
                                       callback |-> Callback])
            /\ views[v].engine \in Callables
            /\ views' = views]_vars
  /\ [](\A v \in Constructed :
          (views[v].path = Undefined /\ Len(calls) < MaxRenders) =>
            \A options \in RenderOptions : ENABLED Render(v, options))

\* A view whose lookup found nothing has been rendered.
C5_Witness ==
  \E v \in Constructed, k \in DOMAIN calls :
    /\ views[v].path = Undefined
    /\ views[v].stats # << >>
    /\ calls[k].view = v
    /\ calls[k].path = Undefined
    /\ calls[k].engine = views[v].engine

(***************************************************************************)
(* Properties of interleaved constructions (SpecRace).                     *)
(***************************************************************************)
\* The position in binds of the last write for extension e, 0 if none.
LastBind(e) ==
  LET ks == {k \in 1..Len(binds) : binds[k].ext = e}
  IN IF ks = {} THEN 0 ELSE CHOOSE k \in ks : \A j \in ks : j <= k

\* C10: constructions for one unbound extension that interleave may each
\* load the provider, and the cache always holds, under the extension, the
\* engine of the last write made for it: a whole callable engine, never
\* something else; every finished view holds an engine that was bound
\* under its extension.
C10_LastBindWins ==
  /\ \A e \in DOMAIN engines :
       /\ engines[e] \in Callables
       /\ engines[e] = IF LastBind(e) = 0 THEN PreRegistered ELSE binds[LastBind(e)].fn
  /\ \A k \in 1..Len(binds) :
       binds[k].ext \in DOMAIN engines /\ binds[k].fn \in Capabilities
  /\ \A v \in DOMAIN views : Len(views[v].requires) <= 1
  /\ \A v \in Constructed :
       \/ views[v].engine = PreRegistered /\ LastBind(views[v].ext) = 0
       \/ \E k \in 1..Len(binds) :
            binds[k].ext = views[v].ext /\ binds[k].fn = views[v].engine

\* Two constructions both loaded the provider of one extension and got
\* different engines; the second write is what the cache holds.
C10_Witness ==
  /\ Len(binds) = 2
  /\ binds[1].ext = binds[2].ext
  /\ binds[1].fn # binds[2].fn
  /\ binds[1].view # binds[2].view
  /\ engines[binds[2].ext] = binds[2].fn
  /\ \A v \in DOMAIN views : views[v].pc = "done"

(***************************************************************************)
(* The extension of a constructed view (Spec).                             *)
(***************************************************************************)
\* C11: after every successful construction, from a name with extension
\* or from a name without one and a non-empty defaultEngine with or without
\* its dot, the view's extension is non-empty and begins with the dot.
C11_ExtensionHasSeparator ==
  \A v \in Constructed :
    /\ Len(views[v].ext) > 0
    /\ Head(views[v].ext) = Dot
    /\ views[v].ext # Undefined

\* Views constructed from a defaultEngine without and with its dot.
C11_Witness ==
  /\ \E v \in Constructed :
       /\ extname(views[v].name) = EmptyStr
       /\ views[v].defaultEngine = <<"h", "t", "m", "l">>
       /\ views[v].ext = <<".", "h", "t", "m", "l">>
  /\ \E v \in Constructed :
       /\ extname(views[v].name) = EmptyStr
       /\ views[v].defaultEngine = <<".", "e", "j", "s">>
       /\ views[v].ext = <<".", "e", "j", "s">>

(***************************************************************************)
(* The root option (SpecLookup).                                           *)
(***************************************************************************)
\* C14: a lookup with the single root R gives the path and the probes, in
\* order, of the lookup with the list of R alone, and a lookup with no
\* root stats nothing and finds nothing.
C14_SingleRootIsOneElementList ==
  \A v \in Constructed :
    LET w == views[v]
        asList == lookup(RootList(<<w.root.value>>), w.fileName, w.ext, fs)
    IN /\ w.root.kind = "single" =>
            /\ w.path = asList.path
            /\ w.stats = asList.stats
            /\ Len(w.stats) \in {1, 2}
            /\ \A k \in 1..Len(w.stats) : w.stats[k].root = 1
       /\ w.root = RootList(<< >>) => w.stats = << >> /\ w.path = Undefined

\* A view with a single root found its file at the directory index.
C14_Witness ==
  \E v \in Constructed :
    /\ views[v].root.kind = "single"
    /\ views[v].path # Undefined
    /\ Len(views[v].stats) = 2

(***************************************************************************)
(* The life of a constructed view (SpecRender).                            *)
(***************************************************************************)
\* C12: a view is resolved or unresolved when its construction ends and
\* stays so: no render and no change of the filesystem changes its path,
\* or anything else of it; nothing is looked up again.
C12_ResolutionIsFinal ==
  [][\A v \in DOMAIN views :
       views[v].pc = "done" =>
         /\ v \in DOMAIN views'
         /\ views'[v].pc = "done"
         /\ views'[v].path = views[v].path
         /\ views'[v].stats = views[v].stats
         /\ views'[v] = views[v]]_vars

\* An unresolved view was rendered after its file had appeared, and stays
\* unresolved.
C12_Witness ==
  \E v \in Constructed :
    /\ views[v].path = Undefined
    /\ IsRegularFile(ExactCandidate(RootsOf(views[v])[1], views[v].fileName))
    /\ \E k \in DOMAIN calls : calls[k].view = v /\ calls[k].path = Undefined

\* C13: a render is one call of the view's engine with the view's path,
\* the options and the callback, and nothing more: the engines cache, the
\* view and the filesystem stay as they are and nothing is stat'ed.
C13_RenderForwardsOnce ==
  [][calls' # calls =>
       /\ \E v \in Constructed, options \in RenderOptions :
            calls' = Append(calls, [view |-> v, engine |-> views[v].engine,
                                    path |-> views[v].path, options |-> options,
                                    callback |-> Callback])
       /\ engines' = engines
       /\ binds' = binds
       /\ views' = views
       /\ fs' = fs]_vars

\* A resolved view was rendered twice, with different options.
C13_Witness ==
  \E v \in Constructed :
    /\ views[v].path # Undefined
    /\ Len(calls) = 2
    /\ calls[1].view = v /\ calls[2].view = v
    /\ calls[1].path = views[v].path
    /\ calls[1].options # calls[2].options

(***************************************************************************)
(* The engines cache over constructions in a row (Spec).                   *)
(***************************************************************************)
\* A step that is a construction.
ConstructionStep == Len(views') = Len(views) + 1

\* C15: a binding of the cache, put there by the caller or by an earlier
\* construction, is never replaced or removed by a later construction; a
\* construction for a bound extension requires nothing and its view gets
\* exactly the engine bound.
C15_BindingsAreKept ==
  /\ [][\A e \in DOMAIN engines :
          e \in DOMAIN engines' /\ engines'[e] = engines[e]]_vars
  /\ [][(ConstructionStep /\ Last(views').ext \in DOMAIN engines) =>
          /\ Last(views').pc = "done"
          /\ Last(views').requires = << >>
          /\ Last(views').engine = engines[Last(views').ext]
          /\ binds' = binds]_vars
  /\ [](\A v \in Constructed :
          /\ views[v].ext \in DOMAIN engines
          /\ views[v].engine = engines[views[v].ext])

\* Two views constructed on the engine the caller had registered.
C15_Witness ==
  /\ binds = << >>
  /\ \E v \in Constructed, w \in Constructed :
       /\ v < w
       /\ views[v].engine = PreRegistered
       /\ views[w].engine = PreRegistered
       /\ extname(views[v].name) = EmptyStr
       /\ views[v].requires = << >> /\ views[w].requires = << >>

\* C16: the constructor checks the extension, then loads and binds the
\* engine, then looks the file up; so a construction that fails leaves the
\* engines cache as it was and has stat'ed nothing, and one that fails on
\* the missing extension has required nothing either.
C16_FailureLeavesNoTrace ==
  [][(ConstructionStep /\ Last(views').pc = "failed") =>
       /\ engines' = engines
       /\ binds' = binds
       /\ Last(views').stats = << >>
       /\ Last(views').path = Undefined
       /\ Last(views').engine = NoEngine
       /\ Last(views').error.type
            \in {"ConfigurationError", "EngineLoadError", "ModuleNotFound"}
       /\ Last(views').error = ConfigurationError =>
            Last(views').requires = << >> /\ Last(views').fn = NoEngine
       /\ Last(views').error # ConfigurationError =>
            Len(Last(views').requires) = 1]_vars

\* One construction failed on the extension and one on the engine.
C16_Witness ==
  /\ \E v \in DOMAIN views : views[v].error = ConfigurationError
  /\ \E v \in DOMAIN views :
       views[v].error.type = "EngineLoadError" /\ views[v].requires # << >>

(***************************************************************************)
(* The probes of a lookup (SpecLookup).                                    *)
(***************************************************************************)
\* C17: a lookup ends, and stats at most two paths per root, roots in
\* order, the exact file first and the index only after the exact file
\* failed: at most 2 * |roots| probes, all of them when nothing matches,
\* and 2 * (i - 1) + 1 or 2 * (i - 1) + 2 when root i is the first to match.
C17_ProbeCount ==
  \A v \in DOMAIN views :
    LET w == views[v]
        roots == RootsOf(w)
        m == FirstMatch(w)
    IN /\ w.pc \in {"done", "failed"}
       /\ w.pc = "done" =>
            /\ Len(w.stats) <= 2 * Len(roots)
            /\ \A k \in 1..(Len(w.stats) - 1) : w.stats[k].root <= w.stats[k + 1].root
            /\ \A i \in 1..Len(roots) :
                 LET probes == PathsOf(ProbesOf(w, i))
                     exact == ExactCandidate(roots[i], w.fileName)
                     index == IndexCandidate(roots[i], w.fileName, w.ext)
                 IN /\ Len(probes) <= 2
                    /\ Len(probes) >= 1 => probes[1] = exact
                    /\ Len(probes) = 2 => probes[2] = index /\ ~IsRegularFile(exact)
            /\ m = 0 => Len(w.stats) = 2 * Len(roots)
            /\ m > 0 =>
                 Len(w.stats) = 2 * (m - 1)
                   + (IF IsRegularFile(ExactCandidate(roots[m], w.fileName)) THEN 1 ELSE 2)

\* Lookups that ended at the second root, one at its exact file after three
\* probes.
C17_Witness ==
  \E v \in Constructed :
    /\ FirstMatch(views[v]) = 2
    /\ Len(views[v].stats) = 3
    /\ views[v].path = views[v].stats[3].path

\* The file name without the extension it ends with.
Stem(fileName, ext) == SubSeq(fileName, 1, Len(fileName) - Len(ext))

sIndexFile(ext) == <<"i", "n", "d", "e", "x">> \o ext

\* The candidates written out: root/fileName and
\* root/<fileName without extension>/index<extension>.
PlainCandidates(root, fileName, ext) ==
  { root \o <<Slash>> \o fileName,
    root \o <<Slash>> \o Stem(fileName, ext) \o <<Slash>> \o sIndexFile(ext) }

\* The candidates of an absolute file name: the roots play no part.
AbsoluteCandidates(fileName, ext) ==
  { fileName, Stem(fileName, ext) \o <<Slash>> \o sIndexFile(ext) }

\* C18 as stated: a resolved path is root/fileName or
\* root/<fileName without extension>/index<extension> for a configured
\* root.
C18_PathUnderARoot ==
  \A v \in Constructed :
    LET w == views[v]
    IN w.path # Undefined =>
         \E i \in 1..Len(RootsOf(w)) :
           w.path \in PlainCandidates(RootsOf(w)[i], w.fileName, w.ext)

\* C18, amended: a resolved path, like every path stat'ed, is one of the two
\* candidates of a configured root, root/fileName and
\* root/<fileName without extension>/index<extension>, when the name is
\* relative, and one of the name itself and
\* <name without extension>/index<extension> when the name is absolute;
\* for the name "a/b" the index is root/a/b/index<ext>, inside the
\* subdirectory.
C18_CandidatePaths ==
  \A v \in Constructed :
    LET w == views[v]
        roots == RootsOf(w)
        CandidatesOf(i) == IF IsAbsolute(w.name)
                             THEN AbsoluteCandidates(w.fileName, w.ext)
                             ELSE PlainCandidates(roots[i], w.fileName, w.ext)
    IN /\ \A k \in 1..Len(w.stats) :
            w.stats[k].path \in CandidatesOf(w.stats[k].root)
       /\ w.path # Undefined =>
            /\ w.path = w.stats[Len(w.stats)].path
            /\ \E i \in 1..Len(roots) : w.path \in CandidatesOf(i)
       /\ (w.name = <<"a", "/", "b">> /\ w.path # Undefined) =>
            \E i \in 1..Len(roots) :
              w.path \in { roots[i] \o <<"/", "a", "/", "b">> \o w.ext,
                           roots[i] \o <<"/", "a", "/", "b", "/", "i", "n", "d", "e", "x">>
                                    \o w.ext }

\* The view "a/b" resolved to the index inside /views/a/b.
C18_Witness ==
  \E v \in Constructed :
    /\ views[v].name = <<"a", "/", "b">>
    /\ views[v].path =
         <<"/", "v", "i", "e", "w", "s", "/", "a", "/", "b", "/",
           "i", "n", "d", "e", "x", ".", "h", "t", "m", "l">>
====
